---- MODULE Spec2Model ----
(***************************************************************************)
(* Model of parse_cmdline (src/src/programs/cmdline_predict.c), the        *)
(* command-line parser of slim_predict.                                    *)
(*                                                                         *)
(* A C string is a sequence of one-character strings; NULL is the null     *)
(* pointer.  argv is a sequence whose element k+1 is C's argv[k]; argv[1]   *)
(* is the program name and C's argv[argc] is NULL.                         *)
(***************************************************************************)
EXTENDS Integers, Sequences, FiniteSets, TLC

(* ------------------------------ bounds --------------------------------- *)
\* at most this many option tokens on the command line
MaxOpts == 2
\* at most this many positional tokens on the command line
MaxFiles == 4

(* ----------------------- values of the C program ----------------------- *)
\* the null pointer: not a character string
NULL == <<"NULL">>

\* codes of struct gk_option.val (slimbin.h), returned by gk_getopt_long_only
CMD_IFMT == "CMD_IFMT"
CMD_BINARIZE == "CMD_BINARIZE"
CMD_OUTFILE == "CMD_OUTFILE"
CMD_NRCMDS == "CMD_NRCMDS"
CMD_DBGLVL == "CMD_DBGLVL"
CMD_HELP == "CMD_HELP"
\* getopt's '?' (bad option) and its -1 (no option left)
QMARK == "?"
GETOPT_END == "-1"

\* input-format codes of GKlib (gk_defs.h)
GK_CSR_FMT_CLUTO == 1
GK_CSR_FMT_CSR == 2
GK_CSR_FMT_METIS == 3
GK_CSR_FMT_IJV == 6
\* gk_GetStringID's result when the key is in no entry of the map
STRING_ID_MISS == -1
\* exit status of GKlib's errexit, exit(-2), as the parent process sees it
ERREXIT_STATUS == 254

\* static struct gk_option long_options[]
long_options ==
  << [name |-> <<"i","f","m","t">>,                 has_arg |-> 1, val |-> CMD_IFMT],
     [name |-> <<"b","i","n","a","r","i","z","e">>, has_arg |-> 0, val |-> CMD_BINARIZE],
     [name |-> <<"o","u","t","f","i","l","e">>,     has_arg |-> 1, val |-> CMD_OUTFILE],
     [name |-> <<"n","r","c","m","d","s">>,         has_arg |-> 1, val |-> CMD_NRCMDS],
     [name |-> <<"d","b","g","l","v","l">>,         has_arg |-> 1, val |-> CMD_DBGLVL],
     [name |-> <<"h","e","l","p">>,                 has_arg |-> 0, val |-> CMD_HELP] >>

\* static gk_StringMap_t ifmt_options[]
ifmt_options ==
  << [name |-> <<"c","s","r">>,         id |-> GK_CSR_FMT_CSR],
     [name |-> <<"c","s","r","n","v">>, id |-> GK_CSR_FMT_METIS],
     [name |-> <<"c","l","u","t","o">>, id |-> GK_CSR_FMT_CLUTO],
     [name |-> <<"i","j","v">>,         id |-> GK_CSR_FMT_IJV] >>

(* ----------------------------- C library ------------------------------- *)
IsDigit(ch) == ch \in {"0","1","2","3","4","5","6","7","8","9"}

DigitValue(ch) ==
  CASE ch = "0" -> 0 [] ch = "1" -> 1 [] ch = "2" -> 2 [] ch = "3" -> 3
    [] ch = "4" -> 4 [] ch = "5" -> 5 [] ch = "6" -> 6 [] ch = "7" -> 7
    [] ch = "8" -> 8 [] ch = "9" -> 9

\* isspace in the C locale; the vertical tab is written "\\v"
IsSpace(ch) == ch \in {" ", "\t", "\n", "\f", "\r", "\\v"}

RECURSIVE SkipSpace(_, _)
SkipSpace(s, i) ==
  IF i <= Len(s) /\ IsSpace(s[i]) THEN SkipSpace(s, i + 1) ELSE i

\* A magnitude of strtol is kept as four 16-bit limbs l[1] (lowest) .. l[4]
\* and the flag ovf, set once it no longer fits 64 bits.
Limb == 65536
HalfLimb == 32768
ZeroMagnitude == [l |-> <<0, 0, 0, 0>>, ovf |-> FALSE]

\* 10 * a + d on the limbs
TimesTenPlus(a, d) ==
  LET t1 == 10 * a.l[1] + d
      t2 == 10 * a.l[2] + (t1 \div Limb)
      t3 == 10 * a.l[3] + (t2 \div Limb)
      t4 == 10 * a.l[4] + (t3 \div Limb)
  IN [l |-> <<t1 % Limb, t2 % Limb, t3 % Limb, t4 % Limb>>, ovf |-> a.ovf \/ t4 >= Limb]

RECURSIVE AtoiDigits(_, _, _)
AtoiDigits(s, i, acc) ==
  IF i <= Len(s) /\ IsDigit(s[i])
    THEN AtoiDigits(s, i + 1, TimesTenPlus(acc, DigitValue(s[i])))
    ELSE acc

\* the int whose 32-bit two's-complement pattern has the halves hi, lo
ToInt(hi, lo) == IF hi >= HalfLimb THEN (hi - Limb) * Limb + lo ELSE hi * Limb + lo

\* (int) of a long: the low 32 bits of the magnitude, negated or not
LowInt(a, neg) ==
  IF ~neg THEN ToInt(a.l[2], a.l[1])
  ELSE IF a.l[1] = 0 THEN ToInt((Limb - a.l[2]) % Limb, 0)
  ELSE ToInt(Limb - 1 - a.l[2], Limb - a.l[1])

\* atoi(s) is (int) strtol(s, NULL, 10): leading white space, an optional
\* sign, then the longest run of digits (0 when there is none); whatever
\* follows the digits is ignored.  strtol saturates at LONG_MAX / LONG_MIN
\* (64 bits) and the conversion to int keeps the low 32 bits, which is what
\* the C library of the build does for a value out of the range of int.
atoi(s) ==
  LET i == SkipSpace(s, 1)
      neg == i <= Len(s) /\ s[i] = "-"
      j == IF i <= Len(s) /\ s[i] \in {"-", "+"} THEN i + 1 ELSE i
      a == AtoiDigits(s, j, ZeroMagnitude)
      aboveMax == a.ovf \/ a.l[4] >= HalfLimb
      belowMin == a.ovf \/ a.l[4] > HalfLimb
                    \/ (a.l[4] = HalfLimb /\ (a.l[1] + a.l[2] + a.l[3]) > 0)
  IN IF neg THEN (IF belowMin THEN 0 ELSE LowInt(a, TRUE))
     ELSE (IF aboveMax THEN 0 - 1 ELSE LowInt(a, FALSE))

(* -------------------------------- GKlib -------------------------------- *)
\* gk_strdup: a copy of the string; NULL for NULL
gk_strdup(s) == s

\* gk_fexists: the path names an existing file (stat succeeds); no file is
\* named by NULL or by the empty string
gk_fexists(files, fname) == fname /= NULL /\ fname \in files

\* tolower in the C locale
tolower(ch) ==
  CASE ch = "A" -> "a" [] ch = "B" -> "b" [] ch = "C" -> "c" [] ch = "D" -> "d"
    [] ch = "E" -> "e" [] ch = "F" -> "f" [] ch = "G" -> "g" [] ch = "H" -> "h"
    [] ch = "I" -> "i" [] ch = "J" -> "j" [] ch = "K" -> "k" [] ch = "L" -> "l"
    [] ch = "M" -> "m" [] ch = "N" -> "n" [] ch = "O" -> "o" [] ch = "P" -> "p"
    [] ch = "Q" -> "q" [] ch = "R" -> "r" [] ch = "S" -> "s" [] ch = "T" -> "t"
    [] ch = "U" -> "u" [] ch = "V" -> "v" [] ch = "W" -> "w" [] ch = "X" -> "x"
    [] ch = "Y" -> "y" [] ch = "Z" -> "z" [] OTHER -> ch

\* gk_strcasecmp: the strings have the same length and the same characters
\* up to case
gk_strcasecmp(s1, s2) ==
  /\ Len(s1) = Len(s2)
  /\ \A i \in 1..Len(s1) : tolower(s1[i]) = tolower(s2[i])

RECURSIVE GetStringIDFrom(_, _, _)
GetStringIDFrom(strmap, key, i) ==
  IF i > Len(strmap) THEN STRING_ID_MISS
  ELSE IF gk_strcasecmp(key, strmap[i].name) THEN strmap[i].id
  ELSE GetStringIDFrom(strmap, key, i + 1)

\* gk_GetStringID: the id of the first entry whose name is the key up to
\* case, else -1
gk_GetStringID(strmap, key) == GetStringIDFrom(strmap, key, 1)

\* C's argv[k], k in 0..argc
ArgvAt(av, k) == IF k < Len(av) THEN av[k + 1] ELSE NULL

\* an element that getopt treats as an option: "-x...", not "-" alone
IsOptionElement(tok) == tok /= NULL /\ Len(tok) >= 2 /\ tok[1] = "-"

\* the text of an option element after its one or two leading dashes
NextChar(tok) == IF tok[2] = "-" THEN SubSeq(tok, 3, Len(tok)) ELSE SubSeq(tok, 2, Len(tok))

RECURSIVE NameEndFrom(_, _)
NameEndFrom(s, i) ==
  IF i > Len(s) \/ s[i] = "=" THEN i ELSE NameEndFrom(s, i + 1)

\* the option name: up to the first '=' or the end
OptName(tok) == LET s == NextChar(tok) IN SubSeq(s, 1, NameEndFrom(s, 1) - 1)
HasEquals(tok) == LET s == NextChar(tok) IN NameEndFrom(s, 1) <= Len(s)
InlineArg(tok) == LET s == NextChar(tok) IN SubSeq(s, NameEndFrom(s, 1) + 1, Len(s))

IsPrefix(p, s) == Len(p) <= Len(s) /\ SubSeq(s, 1, Len(p)) = p

\* the entries of the table whose name is the given name, or else those
\* whose name it abbreviates
LongMatches(name) ==
  LET exact == {i \in 1..Len(long_options) : long_options[i].name = name}
  IN IF exact /= {} THEN exact
     ELSE {i \in 1..Len(long_options) : IsPrefix(name, long_options[i].name)}

\* the element that ends the options
DashDash == <<"-", "-">>

RECURSIVE SkipNonOptions(_, _)
SkipNonOptions(av, k) ==
  IF k < Len(av) /\ ~IsOptionElement(ArgvAt(av, k)) THEN SkipNonOptions(av, k + 1) ELSE k

\* exchange of getopt: argv[first..last-1] (non-options skipped so far) and
\* argv[last..ind-1] (the option just handled) trade places
Exchange(av, first, last, ind) ==
  SubSeq(av, 1, first) \o SubSeq(av, last + 1, ind) \o SubSeq(av, first + 1, last)
    \o SubSeq(av, ind + 1, Len(av))

\* The long option at argv[k], an element that starts with '-': its code
\* and argument, or '?' when it is unrecognized, ambiguous, or given with or
\* without an argument against its has_arg.  base holds argv and the bounds
\* of the non-options skipped.
LongOption(base, k) ==
  LET av == base.argv
      argc == Len(av)
      tok == ArgvAt(av, k)
      found == LongMatches(OptName(tok))
      p == long_options[CHOOSE i \in found : TRUE]
  IN IF Cardinality(found) /= 1
       \* unrecognized or ambiguous
       THEN base @@ [c |-> QMARK, optarg |-> NULL, optind |-> k + 1]
     ELSE IF HasEquals(tok)
       THEN IF p.has_arg = 1
              THEN base @@ [c |-> p.val, optarg |-> InlineArg(tok), optind |-> k + 1]
              \* the option doesn't allow an argument
              ELSE base @@ [c |-> QMARK, optarg |-> NULL, optind |-> k + 1]
     ELSE IF p.has_arg = 1
       THEN IF k + 1 < argc
              THEN base @@ [c |-> p.val, optarg |-> ArgvAt(av, k + 1), optind |-> k + 2]
              \* the option requires an argument
              ELSE base @@ [c |-> QMARK, optarg |-> NULL, optind |-> k + 1]
     ELSE base @@ [c |-> p.val, optarg |-> NULL, optind |-> k + 1]

\* ordering PERMUTE, the default: the non-options are skipped and moved
\* behind the options as the scan goes
getopt_PERMUTE(g) ==
  LET argc == Len(g.argv)
      moved == g.first_nonopt /= g.last_nonopt /\ g.last_nonopt /= g.optind
      av == IF moved THEN Exchange(g.argv, g.first_nonopt, g.last_nonopt, g.optind)
            ELSE g.argv
      first == IF moved THEN g.first_nonopt + (g.optind - g.last_nonopt)
               ELSE IF g.last_nonopt /= g.optind THEN g.optind
               ELSE g.first_nonopt
      k == SkipNonOptions(av, g.optind)
      base == [argv |-> av, first_nonopt |-> first, last_nonopt |-> k]
  IN IF k < argc /\ ArgvAt(av, k) = DashDash
       \* "--" ends the options: it joins the options handled, and what
       \* follows it is left as non-options
       THEN [argv |-> IF first /= k THEN Exchange(av, first, k, k + 1) ELSE av,
             first_nonopt |-> IF first /= k THEN first + 1 ELSE k + 1,
             last_nonopt |-> argc,
             c |-> GETOPT_END, optarg |-> NULL,
             optind |-> IF first /= k THEN first + 1 ELSE k + 1]
     ELSE IF k = argc
       THEN base @@ [c |-> GETOPT_END, optarg |-> NULL,
                     optind |-> IF first /= k THEN first ELSE k]
     ELSE LongOption(base, k)

\* ordering REQUIRE_ORDER, chosen when POSIXLY_CORRECT is in the
\* environment: nothing is moved, and the scan ends at the first non-option
getopt_REQUIRE_ORDER(g) ==
  LET argc == Len(g.argv)
      k == g.optind
      base == [argv |-> g.argv, first_nonopt |-> g.first_nonopt,
               last_nonopt |-> g.last_nonopt]
  IN IF k < argc /\ ArgvAt(g.argv, k) = DashDash
       THEN [argv |-> g.argv, first_nonopt |-> k + 1, last_nonopt |-> argc,
             c |-> GETOPT_END, optarg |-> NULL, optind |-> k + 1]
     ELSE IF k = argc \/ ~IsOptionElement(ArgvAt(g.argv, k))
       THEN base @@ [c |-> GETOPT_END, optarg |-> NULL, optind |-> k]
     ELSE LongOption(base, k)

\* One call of gk_getopt_long_only(argc, argv, "", long_options, &index).
\* g is its state [argv, optind, first_nonopt, last_nonopt] and the
\* environment's posixly_correct; the result adds the returned code c and
\* gk_optarg.
gk_getopt_long_only(g) ==
  IF g.posixly_correct THEN getopt_REQUIRE_ORDER(g) ELSE getopt_PERMUTE(g)

(* --------------------------- command lines ---------------------------- *)
\* option tokens of the checked command lines; -outfile stands without '=',
\* so that the element after it is taken as its value
Tok_ifmt_csrnv == <<"-","i","f","m","t","=","c","s","r","n","v">>
\* a format name in mixed case
Tok_ifmt_Ijv == <<"-","i","f","m","t","=","I","j","v">>
Tok_ifmt_bogus == <<"-","i","f","m","t","=","b","o","g","u","s">>
Tok_binarize == <<"-","b","i","n","a","r","i","z","e">>
Tok_outfile == <<"-","o","u","t","f","i","l","e">>
Tok_nrcmds_5 == <<"-","n","r","c","m","d","s","=","5">>
Tok_nrcmds_neg == <<"-","n","r","c","m","d","s","=","-","1">>
\* a tab before the sign
Tok_dbglvl_neg == <<"-","d","b","g","l","v","l","=","\t","-","3">>
\* 2^31, out of the range of int
Tok_dbglvl_big == <<"-","d","b","g","l","v","l","=","2","1","4","7","4","8","3","6","4","8">>
Tok_help == <<"-","h","e","l","p">>
Tok_unknown == <<"-","x">>
Tok_dashdash == DashDash

OptTokens ==
  { Tok_ifmt_csrnv, Tok_ifmt_Ijv, Tok_ifmt_bogus, Tok_binarize,
    Tok_outfile, Tok_nrcmds_5, Tok_nrcmds_neg, Tok_dbglvl_neg,
    Tok_dbglvl_big, Tok_help, Tok_unknown, Tok_dashdash }

\* positional tokens: two paths, each of which may or may not exist
FileTokens == { <<"m">>, <<"t">> }

\* the file systems: both paths exist, or only the first
FileSystems == { FileTokens, { <<"m">> } }

\* the program name, argv[0]
ProgName == <<"slim_predict">>

\* the option block stands before the positional tokens or after the first
Placements == {0, 1}

BoundedSeq(S, n) == UNION { [1..m -> S] : m \in 0..n }

(* -------------------------------- state -------------------------------- *)
VARIABLES
  argv,          \* the argument vector (getopt permutes it)
  files,         \* the paths that name existing files
  posixly_correct, \* the environment has POSIXLY_CORRECT
  gk_optind,     \* getopt: index of the next element of argv
  gk_optarg,     \* getopt: argument of the last option
  c,             \* the code that the last getopt call returned
  first_nonopt,  \* getopt: start of the non-options skipped so far
  last_nonopt,   \* getopt: end of the non-options skipped so far
  params,        \* the params_t under construction
  pc,            \* position in parse_cmdline
  printed,       \* what was printed on stdout: "", "help" or "shorthelp"
  status,        \* exit status, once pc = "exited"
  errmsg,        \* errexit's message, once it was called
  cmdline,       \* history: argv as it was passed to parse_cmdline
  scanned,       \* history: the code and argument of each case of the switch taken
  fexists_log,   \* history: the gk_fexists calls and their results
  npos           \* history: argc - gk_optind when the option loop ended, -1 before

vars == << argv, files, posixly_correct, gk_optind, gk_optarg, c, first_nonopt, last_nonopt, params,
           pc, printed, status, errmsg, cmdline, scanned, fexists_log, npos >>

getoptVars == << argv, gk_optind, gk_optarg, first_nonopt, last_nonopt >>
outVars == << printed, status, errmsg >>

argc == Len(argv)

NoMessage == [fmt |-> "", arg |-> NULL]

\* npos while the option loop has not ended
NotCounted == 0 - 1

\* mutant: memset 0 only
DefaultParams_Zeroed ==
  [ ifmt |-> 0, readvals |-> 0, binarize |-> 0, outfile |-> NULL,
    tstfile |-> NULL, nrcmds |-> 0, dbglvl |-> 0, mdlfile |-> NULL, trnfile |-> NULL ]

\* memset 0, then "setup defaults"
DefaultParams ==
  [ ifmt |-> GK_CSR_FMT_CSR, readvals |-> 1, binarize |-> 0, outfile |-> NULL,
    tstfile |-> NULL, nrcmds |-> 10, dbglvl |-> 0, mdlfile |-> NULL, trnfile |-> NULL ]

Init ==
  /\ \E opts \in BoundedSeq(OptTokens, MaxOpts), fls \in BoundedSeq(FileTokens, MaxFiles),
        lead \in Placements :
       /\ lead <= Len(fls)
       /\ opts = <<>> => lead = 0
       \* with the options first both orderings scan alike
       /\ posixly_correct \in (IF lead = 0 THEN {FALSE} ELSE BOOLEAN)
       /\ argv = <<ProgName>> \o SubSeq(fls, 1, lead) \o opts \o SubSeq(fls, lead + 1, Len(fls))
  /\ files \in FileSystems
  /\ gk_optind = 1
  /\ gk_optarg = NULL
  /\ c = GETOPT_END
  /\ first_nonopt = 1
  /\ last_nonopt = 1
  /\ params = DefaultParams
  /\ pc = "getopt"
  /\ printed = ""
  /\ status = 0
  /\ errmsg = NoMessage
  /\ cmdline = argv
  /\ scanned = <<>>
  /\ fexists_log = <<>>
  /\ npos = NotCounted

(* ------------------------------- actions ------------------------------- *)
\* errexit(fmt, arg): print the message and end the process with a failure status
errexit(fmt, arg) ==
  /\ pc' = "exited"
  /\ status' = ERREXIT_STATUS
  /\ errmsg' = [fmt |-> fmt, arg |-> arg]
  /\ UNCHANGED printed

\* print a help text on stdout, then exit(0)
PrintAndExit(text) ==
  /\ pc' = "exited"
  /\ status' = 0
  /\ printed' = text
  /\ UNCHANGED errmsg

\* the result of the getopt call at the head of the loop
G == gk_getopt_long_only([argv |-> argv, optind |-> gk_optind,
                          first_nonopt |-> first_nonopt, last_nonopt |-> last_nonopt,
                          posixly_correct |-> posixly_correct])

\* while ((c = gk_getopt_long_only(...)) != -1): the call, and the test
\* that ends the loop
Getopt ==
  /\ pc = "getopt"
  /\ \E g \in {G} :
       /\ argv' = g.argv
       /\ gk_optind' = g.optind
       /\ gk_optarg' = g.optarg
       /\ first_nonopt' = g.first_nonopt
       /\ last_nonopt' = g.last_nonopt
       /\ c' = g.c
       /\ IF g.c = GETOPT_END
            THEN pc' = "argcheck" /\ npos' = Len(g.argv) - g.optind
            ELSE pc' = "switch" /\ UNCHANGED npos
  /\ UNCHANGED << files, posixly_correct, params, outVars, cmdline, scanned, fexists_log >>

\* switch (c) { case code:
SwitchCase(code) ==
  /\ pc = "switch"
  /\ c = code
  /\ scanned' = Append(scanned, [c |-> c, optarg |-> gk_optarg])
  /\ UNCHANGED << getoptVars, c, files, posixly_correct, cmdline, fexists_log, npos >>

\* break: back to the head of the loop
Break == pc' = "getopt" /\ UNCHANGED outVars

\* mutant: the no-ratings case is not dealt with
IfmtParams_NoCollapse(p, id) == [p EXCEPT !.ifmt = id]

\* case CMD_IFMT: the assignments to params
IfmtParams(p, id) ==
  IF id = GK_CSR_FMT_METIS
    THEN [p EXCEPT !.ifmt = GK_CSR_FMT_CSR, !.readvals = 0]
    ELSE [p EXCEPT !.ifmt = id]

\* mutant: the lookup miss is tested against 0
IsInvalidIfmt_Zero(id) == id = 0

\* the test of "if ((params->ifmt = gk_GetStringID(...)) == -1)"
IsInvalidIfmt(id) == id = STRING_ID_MISS

CaseIfmt ==
  /\ SwitchCase(CMD_IFMT)
  /\ LET id == gk_GetStringID(ifmt_options, gk_optarg) IN
       /\ params' = IfmtParams(params, id)
       /\ IF IsInvalidIfmt(id)
            THEN errexit("Invalid -ifmt of %s.", gk_optarg)
            ELSE Break

CaseBinarize ==
  /\ SwitchCase(CMD_BINARIZE)
  /\ params' = [params EXCEPT !.binarize = 1]
  /\ Break

CaseOutfile ==
  /\ SwitchCase(CMD_OUTFILE)
  /\ params' = [params EXCEPT !.outfile = gk_strdup(gk_optarg)]
  /\ Break

\* mutant: -1 is let through
IsNegative_OffByOne(v) == v < 0 - 1

\* the test of "if ((params->dbglvl = atoi(gk_optarg)) < 0)", and of nrcmds
IsNegative(v) == v < 0

CaseDbglvl ==
  /\ SwitchCase(CMD_DBGLVL)
  /\ params' = [params EXCEPT !.dbglvl = atoi(gk_optarg)]
  /\ IF IsNegative(params'.dbglvl)
       THEN errexit("The -dbglvl parameter should be non-negative.", NULL)
       ELSE Break

CaseNrcmds ==
  /\ SwitchCase(CMD_NRCMDS)
  /\ params' = [params EXCEPT !.nrcmds = atoi(gk_optarg)]
  /\ IF IsNegative(params'.nrcmds)
       THEN errexit("The -nrcmds parameter should be non-negative.", NULL)
       ELSE Break

\* case '?': case CMD_HELP: print helpstr, exit(0)
HelpCodes == {QMARK, CMD_HELP}

\* mutant: break instead of exit(0)
CaseHelp_Break ==
  /\ \E code \in HelpCodes : SwitchCase(code)
  /\ pc' = "getopt"
  /\ printed' = "help"
  /\ UNCHANGED << params, status, errmsg >>

CaseHelp ==
  /\ \E code \in HelpCodes : SwitchCase(code)
  /\ PrintAndExit("help")
  /\ UNCHANGED params

\* if (argc - gk_optind < 1 || argc - gk_optind > 3)
WrongArgCount(n) == n < 1 \/ n > 3

CheckArgCount ==
  /\ pc = "argcheck"
  /\ IF WrongArgCount(argc - gk_optind)
       THEN PrintAndExit("shorthelp")
       ELSE pc' = "mdlfile" /\ UNCHANGED outVars
  /\ UNCHANGED << getoptVars, c, files, posixly_correct, params, cmdline, scanned, fexists_log, npos >>

\* the entry that a gk_fexists call leaves in the history
FexistsCall(role, path) == [role |-> role, path |-> path, found |-> gk_fexists(files, path)]

\* mutant: a missing model file is reported but the run goes on
GetModelFile_NoExit ==
  /\ pc = "mdlfile"
  /\ LET path == gk_strdup(ArgvAt(argv, gk_optind)) IN
       /\ params' = [params EXCEPT !.mdlfile = path]
       /\ fexists_log' = Append(fexists_log, FexistsCall("model", path))
       /\ errmsg' = IF ~gk_fexists(files, path)
                      THEN [fmt |-> "Input model file %s does not exist.", arg |-> path]
                      ELSE errmsg
  /\ pc' = "trnfile"
  /\ gk_optind' = gk_optind + 1
  /\ UNCHANGED << argv, gk_optarg, c, first_nonopt, last_nonopt, files, posixly_correct, cmdline, scanned, npos,
                  printed, status >>

\* params->mdlfile = gk_strdup(argv[gk_optind++]); if (!gk_fexists(...)) errexit(...)
GetModelFile ==
  /\ pc = "mdlfile"
  /\ LET path == gk_strdup(ArgvAt(argv, gk_optind)) IN
       /\ params' = [params EXCEPT !.mdlfile = path]
       /\ fexists_log' = Append(fexists_log, FexistsCall("model", path))
       /\ IF ~gk_fexists(files, path)
            THEN errexit("Input model file %s does not exist.", path)
            ELSE pc' = "trnfile" /\ UNCHANGED outVars
  /\ gk_optind' = gk_optind + 1
  /\ UNCHANGED << argv, gk_optarg, c, first_nonopt, last_nonopt, files, posixly_correct, cmdline, scanned, npos >>

\* mutant: the training file is not checked
GetTrainFile_NoCheck ==
  /\ pc = "trnfile"
  /\ params' = [params EXCEPT !.trnfile = gk_strdup(ArgvAt(argv, gk_optind))]
  /\ pc' = "tstfile"
  /\ gk_optind' = gk_optind + 1
  /\ UNCHANGED << argv, gk_optarg, c, first_nonopt, last_nonopt, files, posixly_correct, cmdline, scanned, npos,
                  fexists_log, outVars >>

\* params->trnfile = gk_strdup(argv[gk_optind++]); if (!gk_fexists(...)) errexit(...)
GetTrainFile ==
  /\ pc = "trnfile"
  /\ LET path == gk_strdup(ArgvAt(argv, gk_optind)) IN
       /\ params' = [params EXCEPT !.trnfile = path]
       /\ fexists_log' = Append(fexists_log, FexistsCall("old", path))
       /\ IF ~gk_fexists(files, path)
            THEN errexit("Input old file %s does not exist.", path)
            ELSE pc' = "tstfile" /\ UNCHANGED outVars
  /\ gk_optind' = gk_optind + 1
  /\ UNCHANGED << argv, gk_optarg, c, first_nonopt, last_nonopt, files, posixly_correct, cmdline, scanned, npos >>

\* mutant: the test file is looked for when two tokens are left
HasTestFile_OffByOne(n) == n = 2

\* if (argc - gk_optind == 1)
HasTestFile(n) == n = 1

\* the optional test file, then return params
GetTestFile ==
  /\ pc = "tstfile"
  /\ IF HasTestFile(argc - gk_optind)
       THEN LET path == gk_strdup(ArgvAt(argv, gk_optind)) IN
              /\ params' = [params EXCEPT !.tstfile = path]
              /\ fexists_log' = Append(fexists_log, FexistsCall("test", path))
              /\ gk_optind' = gk_optind + 1
              /\ IF ~gk_fexists(files, path)
                   THEN errexit("Input test file %s does not exist.", path)
                   ELSE pc' = "returned" /\ UNCHANGED outVars
       ELSE /\ pc' = "returned"
            /\ UNCHANGED << params, fexists_log, gk_optind, outVars >>
  /\ UNCHANGED << argv, gk_optarg, c, first_nonopt, last_nonopt, files, posixly_correct, cmdline, scanned, npos >>

Next ==
  \/ Getopt
  \/ CaseIfmt
  \/ CaseBinarize
  \/ CaseOutfile
  \/ CaseDbglvl
  \/ CaseNrcmds
  \/ CaseHelp
  \/ CheckArgCount
  \/ GetModelFile
  \/ GetTrainFile
  \/ GetTestFile

Spec == Init /\ [][Next]_vars

TypeOK ==
  /\ pc \in {"getopt", "switch", "argcheck", "mdlfile", "trnfile", "tstfile", "returned", "exited"}
  /\ printed \in {"", "help", "shorthelp"}
  /\ status \in {0, ERREXIT_STATUS}

(* ----------------------- vocabulary of the claims ----------------------- *)
Terminal == pc \in {"returned", "exited"}
Returned == pc = "returned"
ExitedWith(st) == pc = "exited" /\ status = st
Failed == pc = "exited" /\ status /= 0
LoopEnded == npos /= NotCounted

NrcmdsMessage == "The -nrcmds parameter should be non-negative."
DbglvlMessage == "The -dbglvl parameter should be non-negative."
IfmtMessage == "Invalid -ifmt of %s."
FileMessage(role) ==
  CASE role = "model" -> "Input model file %s does not exist."
    [] role = "old" -> "Input old file %s does not exist."
    [] role = "test" -> "Input test file %s does not exist."

\* the option of the table that a token of the command line names, if any
NamesOption(tok, code) ==
  /\ IsOptionElement(tok)
  /\ \E j \in LongMatches(OptName(tok)) :
       /\ LongMatches(OptName(tok)) = {j}
       /\ long_options[j].val = code

\* option `code` appears somewhere in the argument vector
Mentions(code) == \E i \in 2..Len(cmdline) : NamesOption(cmdline[i], code)

\* option `code` appears with a value in set V (given after '=')
MentionsValue(code, V) ==
  \E i \in 2..Len(cmdline) :
    /\ NamesOption(cmdline[i], code)
    /\ HasEquals(cmdline[i])
    /\ InlineArg(cmdline[i]) \in V

\* The positional tokens of a command line read from left to right, from
\* element k on: the tokens that are neither options nor the separate value
\* of a value-taking option, and every token after "--"; when the options
\* must come first (posix), every token from the first such token on.
RECURSIVE PositionalsFrom(_, _, _)
PositionalsFrom(av, k, posix) ==
  IF k >= Len(av) THEN <<>>
  ELSE LET tok == ArgvAt(av, k) IN
    IF tok = DashDash THEN SubSeq(av, k + 2, Len(av))
    ELSE IF ~IsOptionElement(tok)
      THEN IF posix THEN SubSeq(av, k + 1, Len(av))
           ELSE <<tok>> \o PositionalsFrom(av, k + 1, posix)
    ELSE IF /\ ~HasEquals(tok)
            /\ \E j \in LongMatches(OptName(tok)) :
                 LongMatches(OptName(tok)) = {j} /\ long_options[j].has_arg = 1
      THEN PositionalsFrom(av, k + 2, posix)
    ELSE PositionalsFrom(av, k + 1, posix)

Positionals == PositionalsFrom(cmdline, 1, posixly_correct)

\* the values of the -ifmt options the scan handled, in order
RECURSIVE IfmtValuesOf(_)
IfmtValuesOf(sc) ==
  IF sc = <<>> THEN <<>>
  ELSE IF Head(sc).c = CMD_IFMT THEN <<Head(sc).optarg>> \o IfmtValuesOf(Tail(sc))
  ELSE IfmtValuesOf(Tail(sc))

IfmtValues == IfmtValuesOf(scanned)
Str_csrnv == <<"c","s","r","n","v">>
Str_bogus == <<"b","o","g","u","s">>
Str_Ijv == <<"I","j","v">>
LowerCase(s) == [i \in 1..Len(s) |-> tolower(s[i])]
IsCsrnv(v) == LowerCase(v) = Str_csrnv
HandledCsrnv == \E i \in 1..Len(IfmtValues) : IsCsrnv(IfmtValues[i])
IfmtNames == { ifmt_options[i].name : i \in 1..Len(ifmt_options) }
\* the value is one of the format names, in any case
IsFormatName(v) == LowerCase(v) \in IfmtNames
NegativeValues == { <<"-","1">>, <<"\t","-","3">> }
FormatCodes == { GK_CSR_FMT_CSR, GK_CSR_FMT_CLUTO, GK_CSR_FMT_IJV }

(* ------------------------------- claims -------------------------------- *)

\* C1: when the option loop ends normally and 0, 1 or at least 4 positional
\* tokens remain, the run prints the short usage text, exits with status 0
\* and never calls gk_fexists.
C1_ShortUsageUnlessTwoOrThree ==
  (LoopEnded /\ npos \notin {2, 3})
    => /\ fexists_log = <<>>
       /\ Terminal => (ExitedWith(0) /\ printed = "shorthelp")

\* C2: with valid options and 2 or 3 positional tokens that all name
\* existing files, the run returns a configuration whose mdlfile, trnfile
\* and tstfile are the first, second and third positional token (tstfile
\* NULL when there are two).
C2_PositionalsInOrder ==
  (Terminal /\ LoopEnded /\ Len(Positionals) \in {2, 3}
     /\ \A i \in 1..Len(Positionals) : Positionals[i] \in files)
    => /\ Returned
       /\ params.mdlfile = Positionals[1]
       /\ params.trnfile = Positionals[2]
       /\ params.tstfile = IF Len(Positionals) = 3 THEN Positionals[3] ELSE NULL

C2_Witness ==
  /\ Returned
  /\ Len(Positionals) = 3
  /\ params.mdlfile /= params.trnfile
  /\ params.tstfile = Positionals[3]
  /\ argv /= cmdline

\* C3: in every returned configuration mdlfile and trnfile are non-empty
\* paths on which gk_fexists succeeded, and tstfile, when not NULL, is a
\* path on which gk_fexists succeeded; a single positional token included.
CheckedOk(role, path) ==
  \E i \in 1..Len(fexists_log) : fexists_log[i] = [role |-> role, path |-> path, found |-> TRUE]

C3_ReturnedFilesExist ==
  Returned
    => /\ params.mdlfile /= NULL /\ Len(params.mdlfile) > 0
       /\ CheckedOk("model", params.mdlfile)
       /\ params.trnfile /= NULL /\ Len(params.trnfile) > 0
       /\ CheckedOk("old", params.trnfile)
       /\ params.tstfile /= NULL => CheckedOk("test", params.tstfile)

C3_Witness ==
  /\ Returned
  /\ params.tstfile /= NULL
  /\ Len(fexists_log) = 3

\* C4 as stated: a returned configuration of a run that handled
\* -ifmt=csrnv, with other -ifmt values before or after it, has ifmt = CSR
\* and readvals = 0; readvals is 1 unless csrnv was handled.
C4_Original ==
  Returned
    => /\ HandledCsrnv => (params.ifmt = GK_CSR_FMT_CSR /\ params.readvals = 0)
       /\ ~HandledCsrnv => params.readvals = 1

\* C4 amended: in a returned configuration readvals is 0 exactly when the
\* scan handled some -ifmt=csrnv (the name in any case), and ifmt is
\* decided by the last -ifmt handled: CSR when that is csrnv (CSR also when
\* there is none), else the code of that value, while readvals stays 0
\* once csrnv was handled.
C4_LastIfmtDecidesFormat ==
  Returned
    => /\ params.readvals = (IF HandledCsrnv THEN 0 ELSE 1)
       /\ IF IfmtValues = <<>> THEN params.ifmt = GK_CSR_FMT_CSR
          ELSE LET last == IfmtValues[Len(IfmtValues)] IN
            IF IsCsrnv(last) THEN params.ifmt = GK_CSR_FMT_CSR
            ELSE params.ifmt = gk_GetStringID(ifmt_options, last)

C4_Witness ==
  /\ Returned
  /\ Len(IfmtValues) = 2
  /\ IfmtValues[1] = Str_csrnv
  /\ IfmtValues[2] = Str_Ijv
  /\ params.ifmt = GK_CSR_FMT_IJV
  /\ params.readvals = 0

\* C5: in a returned configuration every field whose option does not
\* appear in the argument vector has its default: ifmt = CSR and
\* readvals = 1, binarize = 0, outfile NULL, nrcmds = 10, dbglvl = 0, and
\* tstfile NULL when there is no third positional token.
C5_DefaultsKept ==
  Returned
    => /\ ~Mentions(CMD_IFMT) => (params.ifmt = GK_CSR_FMT_CSR /\ params.readvals = 1)
       /\ ~Mentions(CMD_BINARIZE) => params.binarize = 0
       /\ ~Mentions(CMD_OUTFILE) => params.outfile = NULL
       /\ ~Mentions(CMD_NRCMDS) => params.nrcmds = 10
       /\ ~Mentions(CMD_DBGLVL) => params.dbglvl = 0
       /\ Len(Positionals) < 3 => params.tstfile = NULL

C5_Witness ==
  /\ Returned
  /\ Mentions(CMD_BINARIZE) /\ params.binarize = 1
  /\ ~Mentions(CMD_IFMT) /\ ~Mentions(CMD_OUTFILE) /\ ~Mentions(CMD_NRCMDS)
  /\ ~Mentions(CMD_DBGLVL)
  /\ Len(Positionals) = 2

\* C6 as stated: every run whose argument vector contains -nrcmds or
\* -dbglvl with a negative value fails with the non-negative diagnostic of
\* such an option, and returned configurations have nrcmds, dbglvl >= 0.
C6_Original ==
  /\ (Terminal /\ (MentionsValue(CMD_NRCMDS, NegativeValues)
                     \/ MentionsValue(CMD_DBGLVL, NegativeValues)))
       => /\ Failed
          /\ \/ MentionsValue(CMD_NRCMDS, NegativeValues) /\ errmsg.fmt = NrcmdsMessage
             \/ MentionsValue(CMD_DBGLVL, NegativeValues) /\ errmsg.fmt = DbglvlMessage
  /\ Returned => (params.nrcmds >= 0 /\ params.dbglvl >= 0)

\* C6 amended: whenever the option scan reaches -nrcmds or -dbglvl with a
\* negative value (no earlier token ended the run, and the token is not the
\* value of another option), the run fails there with that option's
\* non-negative diagnostic; every returned configuration has nrcmds >= 0
\* and dbglvl >= 0, also when the option is repeated.
C6_NegativeRejectedWhenScanned ==
  /\ \A i \in 1..Len(scanned) :
       /\ (scanned[i].c = CMD_NRCMDS /\ atoi(scanned[i].optarg) < 0)
            => (i = Len(scanned) /\ ExitedWith(ERREXIT_STATUS)
                  /\ errmsg = [fmt |-> NrcmdsMessage, arg |-> NULL])
       /\ (scanned[i].c = CMD_DBGLVL /\ atoi(scanned[i].optarg) < 0)
            => (i = Len(scanned) /\ ExitedWith(ERREXIT_STATUS)
                  /\ errmsg = [fmt |-> DbglvlMessage, arg |-> NULL])
  /\ Returned => (params.nrcmds >= 0 /\ params.dbglvl >= 0)

C6_Witness ==
  /\ Len(scanned) = 2
  /\ scanned[1].c = CMD_NRCMDS /\ atoi(scanned[1].optarg) = 5
  /\ scanned[2].c = CMD_NRCMDS /\ atoi(scanned[2].optarg) < 0
  /\ Failed
  /\ errmsg.fmt = NrcmdsMessage

\* C7 as stated: every run whose argument vector contains -ifmt with a
\* value outside {csr, csrnv, cluto, ijv} fails with the diagnostic naming
\* that value, and a returned ifmt is CSR, CLUTO or IJV.
C7_Original ==
  /\ \A i \in 2..Len(cmdline) :
       (Terminal /\ NamesOption(cmdline[i], CMD_IFMT) /\ HasEquals(cmdline[i])
          /\ InlineArg(cmdline[i]) \notin IfmtNames)
         => (Failed /\ errmsg = [fmt |-> IfmtMessage, arg |-> InlineArg(cmdline[i])])
  /\ Returned => params.ifmt \in FormatCodes

\* C7 amended: whenever the option scan reaches -ifmt with a value that is
\* none of csr, csrnv, cluto, ijv in any case (no earlier token ended the
\* run, and the token is not the value of another option), the run fails
\* there with the diagnostic naming that value; the ifmt of a returned
\* configuration is CSR, CLUTO or IJV, never -1 and never the csrnv code.
C7_UnknownFormatRejectedWhenScanned ==
  /\ \A i \in 1..Len(scanned) :
       (scanned[i].c = CMD_IFMT /\ ~IsFormatName(scanned[i].optarg))
         => (i = Len(scanned) /\ ExitedWith(ERREXIT_STATUS)
               /\ errmsg = [fmt |-> IfmtMessage, arg |-> scanned[i].optarg])
  /\ Returned => params.ifmt \in FormatCodes

C7_Witness ==
  /\ Len(scanned) = 2
  /\ scanned[1].c = CMD_IFMT /\ scanned[1].optarg = Str_csrnv
  /\ scanned[2].c = CMD_IFMT /\ scanned[2].optarg = Str_bogus
  /\ Failed
  /\ errmsg.arg = Str_bogus

\* C8: gk_fexists is called on the positional tokens in the order model,
\* old (training), test; a call that finds no file is the last one, and the
\* run then fails with the diagnostic of that role naming that path.
Roles == << "model", "old", "test" >>

C8_ChecksInOrderStopAtFirstFailure ==
  /\ Len(fexists_log) <= 3
  /\ \A k \in 1..Len(fexists_log) :
       /\ fexists_log[k].role = Roles[k]
       /\ k <= Len(Positionals) => fexists_log[k].path = Positionals[k]
       /\ fexists_log[k].found = (fexists_log[k].path \in files)
       /\ ~fexists_log[k].found
            => /\ k = Len(fexists_log)
               /\ ExitedWith(ERREXIT_STATUS)
               /\ errmsg = [fmt |-> FileMessage(Roles[k]), arg |-> fexists_log[k].path]

C8_Witness ==
  /\ Len(Positionals) = 3
  /\ Positionals[3] \notin files
  /\ Len(fexists_log) = 2
  /\ ~fexists_log[2].found
  /\ Failed

\* C9: when the option scan reaches -help or an unrecognized option, the
\* run prints the full help text and exits with status 0 at once, whatever
\* was applied before and whatever follows: the scan stops there, the
\* positional count is never examined and gk_fexists is never called.
C9_HelpAndUnknownExitAtOnce ==
  \A i \in 1..Len(scanned) :
    scanned[i].c \in {QMARK, CMD_HELP}
      => /\ i = Len(scanned)
         /\ ExitedWith(0)
         /\ printed = "help"
         /\ errmsg = NoMessage
         /\ ~LoopEnded
         /\ fexists_log = <<>>

C9_Witness ==
  /\ Len(scanned) = 2
  /\ scanned[1].c = CMD_BINARIZE
  /\ scanned[2].c = QMARK
  /\ params.binarize = 1
  /\ printed = "help"
  /\ gk_optind < argc

\* C10: every run ends in one outcome decided by the first terminating
\* check in the order options, positional count, files: an invalid option
\* value gives its validation failure whatever the positional tokens are,
\* and a wrong positional count (not 2 or 3) gives the short usage text
\* even when the named files do not exist.
C10_FirstCheckDecides ==
  /\ fexists_log /= <<>> => LoopEnded
  /\ Terminal =>
       /\ (scanned /= <<>> /\ scanned[Len(scanned)].c \in {CMD_NRCMDS, CMD_DBGLVL}
             /\ atoi(scanned[Len(scanned)].optarg) < 0)
            => (Failed /\ ~LoopEnded)
       /\ (scanned /= <<>> /\ scanned[Len(scanned)].c = CMD_IFMT
             /\ ~IsFormatName(scanned[Len(scanned)].optarg))
            => (Failed /\ ~LoopEnded)
       /\ (LoopEnded /\ Len(Positionals) \notin {2, 3})
            => (ExitedWith(0) /\ printed = "shorthelp" /\ errmsg = NoMessage)

====
